---------------------------- MODULE Spec2Model ----------------------------
(***************************************************************************)
(* A model of src/main.py: the interactive session of the engineer         *)
(* assistant: the conversation history, the files it reads and writes, the *)
(* structured response it decodes from the backend's stream, the           *)
(* confirmation gate and the snippet patcher.                              *)
(*                                                                         *)
(* Texts are sequences of characters, paths are sequences of segments, the *)
(* file system maps a canonical path to a file's bytes and permissions.    *)
(***************************************************************************)
EXTENDS Integers, Sequences, FiniteSets, TLC

(***************************************************************************)
(* Bounds of the model.                                                    *)
(***************************************************************************)
\* longest file content of the patcher's specification
MaxFileLen == 3
\* longest original_snippet of the patcher's specification
MaxSnippetLen == 2
\* longest new_snippet of the patcher's specification
MaxNewLen == 1
\* lines one session reads at its prompt, after the project description
MaxTurns == 1
\* highest numeric suffix of a project directory that may already exist
MaxSuffix == 3
\* most edits one response of the single turn proposes
MaxEdits == 2
\* most segments of a path string given to normalize_path
MaxPathLen == 3
\* most files_to_create entries of a response of the creations' specification
MaxCreates == 2

(***************************************************************************)
(* Texts.  "CR" and "LF" are the carriage return and the line feed; a file *)
(* on disk holds them as written, a text-mode read translates them.        *)
(***************************************************************************)
Chars == {"a", "CR", "LF"}

Texts(n) == UNION {[1..k -> Chars] : k \in 0..n}

Range(s) == {s[i] : i \in DOMAIN s}

\* S occurs in T at index i (the empty text occurs at every index 1..Len(T)+1)
OccursAt(S, T, i) ==
    /\ i \in 1..(Len(T) - Len(S) + 1)
    /\ SubSeq(T, i, i + Len(S) - 1) = S

Occurrences(S, T) == {i \in 1..(Len(T) + 1) : OccursAt(S, T, i)}

\* Python's `S in T`
str_contains(S, T) == Occurrences(S, T) # {}

\* Python's T.find(S), for a text that contains S
str_find(S, T) == CHOOSE i \in Occurrences(S, T) : \A j \in Occurrences(S, T) : i <= j

\* a replace that resumes at the snippet instead of after it: R is put in
\* front of the occurrence, which stays
str_replace_keeps_snippet(T, S, R, count) ==
    IF count = 0 \/ ~str_contains(S, T) THEN T
    ELSE LET i == str_find(S, T)
         IN  SubSeq(T, 1, i - 1) \o R \o SubSeq(T, i, Len(T))

\* a replace that searches from the right: the last occurrence is replaced
str_replace_rightmost(T, S, R, count) ==
    IF count = 0 \/ ~str_contains(S, T) THEN T
    ELSE LET i == CHOOSE k \in Occurrences(S, T) : \A j \in Occurrences(S, T) : j <= k
         IN  SubSeq(T, 1, i - 1) \o R \o SubSeq(T, i + Len(S), Len(T))

\* Python's T.replace(S, R, count) for count >= 0: left to right, non-overlapping
RECURSIVE str_replace(_, _, _, _)
str_replace(T, S, R, count) ==
    IF count = 0 \/ ~str_contains(S, T) THEN T
    ELSE IF S = <<>>
         THEN IF T = <<>> THEN R
              ELSE R \o <<Head(T)>> \o str_replace(Tail(T), S, R, count - 1)
         ELSE LET i == str_find(S, T)
              IN  SubSeq(T, 1, i - 1) \o R
                    \o str_replace(SubSeq(T, i + Len(S), Len(T)), S, R, count - 1)

\* the universal-newlines translation of a text-mode read: CR LF and a lone CR
\* both read as LF
RECURSIVE universal_newlines(_)
universal_newlines(data) ==
    IF data = <<>> THEN <<>>
    ELSE IF Head(data) = "CR"
         THEN IF Len(data) >= 2 /\ data[2] = "LF"
              THEN <<"LF">> \o universal_newlines(SubSeq(data, 3, Len(data)))
              ELSE <<"LF">> \o universal_newlines(Tail(data))
         ELSE <<Head(data)>> \o universal_newlines(Tail(data))

(***************************************************************************)
(* Paths.  A path string is its sequence of segments and a segment is its  *)
(* sequence of dash-separated parts (<<"foo", "1">> is "foo-1").  An       *)
(* absolute path starts with the root segment.  The process runs in /w.    *)
(***************************************************************************)
Root == <<"/">>
cwd == <<Root, <<"w">>>>

IsAbs(p) == Len(p) >= 1 /\ p[1] = Root

\* pathlib's  dir / p : an absolute p replaces dir
Join(dir, p) == IF IsAbs(p) THEN p ELSE dir \o p

\* the segments of an absolute path with "." dropped and ".." applied
RECURSIVE Collapse(_, _)
Collapse(done, rest) ==
    IF rest = <<>> THEN done
    ELSE IF Head(rest) = <<".">> THEN Collapse(done, Tail(rest))
    ELSE IF Head(rest) = <<"..">>
         THEN Collapse(IF Len(done) > 1 THEN SubSeq(done, 1, Len(done) - 1) ELSE done,
                       Tail(rest))
         ELSE Collapse(Append(done, Head(rest)), Tail(rest))

\* a path string no file system call accepts (an embedded NUL): ValueError
PathError(p) == <<"NUL">> \in Range(p)

\* a version that makes the path absolute and keeps its "." and ".." segments
normalize_path_absolute(path_str) == Join(cwd, path_str)

\* str(Path(path_str).resolve())
normalize_path(path_str) == Collapse(<<Root>>, Tail(Join(cwd, path_str)))

(***************************************************************************)
(* Files.  A file holds its bytes as written; mode is what the process may *)
(* do with it ("rw", "ro" read only, "none"), utf8 whether its bytes       *)
(* decode as UTF-8.                                                        *)
(***************************************************************************)
Absent == [exists |-> FALSE, data |-> <<>>, mode |-> "rw", utf8 |-> TRUE]

File(data, mode, utf8) == [exists |-> TRUE, data |-> data, mode |-> mode, utf8 |-> utf8]

\* the file a path string names, for the operating system (no symbolic links)
Target(file_path) == normalize_path(file_path)

\* the exception open(file_path, "r", encoding="utf-8") + read() ends with
ReadError(files, file_path) ==
    LET f == files[Target(file_path)]
    IN  IF PathError(file_path) THEN "ValueError"
        ELSE IF ~f.exists THEN "FileNotFoundError"
        ELSE IF f.mode = "none" THEN "PermissionError"
        ELSE IF ~f.utf8 THEN "UnicodeDecodeError"
        ELSE "none"

\* the exceptions `except OSError` catches; UnicodeDecodeError is a ValueError
IsOSError(exc) == exc \in {"FileNotFoundError", "PermissionError"}

IsValueError(exc) == exc \in {"ValueError", "UnicodeDecodeError"}

\* read_local_file: the text of a file that can be read
read_local_file(files, file_path) == universal_newlines(files[Target(file_path)].data)

\* the exception open(file_path, "w", encoding="utf-8") ends with
WriteError(files, file_path) ==
    LET f == files[Target(file_path)]
    IN  IF PathError(file_path) THEN "ValueError"
        ELSE IF f.exists /\ f.mode # "rw" THEN "PermissionError"
        ELSE "none"

\* a write that opens the file with "a": the content is added to what is there
write_file_appends(files, file_path, content) ==
    [files EXCEPT ![Target(file_path)] =
        File(files[Target(file_path)].data \o content, "rw", TRUE)]

\* the files after  f.write(content)  on a file opened with "w"
write_file(files, file_path, content) ==
    [files EXCEPT ![Target(file_path)] = File(content, "rw", TRUE)]

(***************************************************************************)
(* Messages, responses and console reports.                                *)
(***************************************************************************)
NoPath == <<>>

\* a message of the conversation: its role and its content.  kind names the
\* f-string that built the content; path and text are what it interpolates,
\* words is the user's line.
\*   "prompt"   system_PROMPT
\*   "file"     "Content of file '{path}':\n\n{text}"
\*   "created"  "Created/updated file at '{path}'"
\*   "applied"  "Applied diff edit to '{path}'"
\*   "user"     the user's message
\*   "reply"    the assistant's reply
Msg(role, kind, path, text, words) ==
    [role |-> role, kind |-> kind, path |-> path, text |-> text, words |-> words]

FileMsg(path, text) == Msg("system", "file", path, text, <<>>)

\* file_marker in msg["content"], for file_marker = "Content of file '{path}'":
\* no text of the model spells the marker, only the framing carries it
marker_in(path, msg) == msg.kind = "file" /\ msg.path = path

has_marker(hist, path) == \E k \in DOMAIN hist : marker_in(path, hist[k])

\* an Optional[List[...]] field: None, or a list
None == [some |-> FALSE, val |-> <<>>]

Some(list) == [some |-> TRUE, val |-> list]

\* Python's truth value of an optional list
Truthy(opt) == opt.some /\ opt.val # <<>>

FileToCreate(path, content) == [path |-> path, content |-> content]

FileToEdit(path, original_snippet, new_snippet) ==
    [path |-> path, original_snippet |-> original_snippet, new_snippet |-> new_snippet]

AssistantResponse(assistant_reply, files_to_create, files_to_edit) ==
    [assistant_reply |-> assistant_reply,
     files_to_create |-> files_to_create,
     files_to_edit |-> files_to_edit]

\* one console.print of a handler: what is reported, about which path, and the
\* exception text it interpolates ("none": it has none)
Report(event, path) == [event |-> event, path |-> path, err |-> "none"]

ErrorReport(event, path, err) == [event |-> event, path |-> path, err |-> err]

\* the literal diagnostics of stream_openai_response
JsonErrorMsg == <<"Failed to parse JSON response from assistant">>

ApiErrorMsg(e) == <<"Ollama API error: ", e>>

(***************************************************************************)
(* The state of the process.                                               *)
(***************************************************************************)
VARIABLES
    pc,                    \* where main() stands
    projects,              \* the names that exist under projects/
    base_project_name,     \* main's base_project_name
    project_dir,           \* main's project_dir
    fs,                    \* the files, by canonical path
    conversation_history,  \* the module's conversation_history
    user_input,            \* main's user_input: the words of the line read
    potential_paths,       \* stream_openai_response's potential_paths
    messages,              \* stream_openai_response's messages: what the backend is sent
    response,              \* stream_openai_response's response: what the backend answers
    full_content,          \* stream_openai_response's buffer
    valid_files,           \* stream_openai_response's valid_files
    response_data,         \* main's response_data
    idx,                   \* the position of main's for loops
    confirm,               \* main's confirm
    console,               \* what the last handler printed
    turns                  \* user inputs read so far

vars == <<pc, projects, base_project_name, project_dir, fs, conversation_history, user_input,
          potential_paths, messages, response, full_content, valid_files, response_data,
          idx, confirm, console, turns>>

\* the part of the state a helper changes: files, history, console, and the
\* exception it ends with ("none": it returns)
World(files, hist, out, exc) == [fs |-> files, hist |-> hist, out |-> out, exc |-> exc]

(***************************************************************************)
(* create_file                                                             *)
(***************************************************************************)
\* a create_file that drops the messages the conversation already holds for
\* the file before it appends the new content
create_file_supersedes(path, content, w) ==
    LET file_path == Join(project_dir, path)
        err == WriteError(w.fs, file_path)
        normalized_path == normalize_path(file_path)
        other(msg) == ~marker_in(normalized_path, msg)
    IN  IF err # "none" THEN [w EXCEPT !.exc = err]
        ELSE World(write_file(w.fs, file_path, content),
                   SelectSeq(w.hist, other)
                       \o <<Msg("assistant", "created", file_path, <<>>, <<>>),
                            FileMsg(normalized_path, content)>>,
                   Append(w.out, Report("created", file_path)),
                   "none")

create_file(path, content, w) ==
    LET file_path == Join(project_dir, path)
        err == WriteError(w.fs, file_path)
        normalized_path == normalize_path(file_path)
    IN  IF err # "none" THEN [w EXCEPT !.exc = err]
        ELSE World(write_file(w.fs, file_path, content),
                   w.hist \o <<Msg("assistant", "created", file_path, <<>>, <<>>),
                               FileMsg(normalized_path, content)>>,
                   Append(w.out, Report("created", file_path)),
                   "none")

(***************************************************************************)
(* apply_diff_edit                                                         *)
(***************************************************************************)
\* an apply_diff_edit without the test `original_snippet in content`: the
\* file is written back and recorded whether or not the snippet was found
apply_diff_edit_unchecked(path, original_snippet, new_snippet, w) ==
    LET file_path == Join(project_dir, path)
        err == ReadError(w.fs, file_path)
        content == read_local_file(w.fs, file_path)
        updated_content == str_replace(content, original_snippet, new_snippet, 1)
        created == create_file(path, updated_content, w)
    IN  IF err = "FileNotFoundError"
        THEN [w EXCEPT !.out = Append(w.out, Report("file_not_found", file_path))]
        ELSE IF err # "none" THEN [w EXCEPT !.exc = err]
        ELSE IF created.exc # "none" THEN created
        ELSE [created EXCEPT
                !.out = Append(created.out, Report("applied", file_path)),
                !.hist = Append(created.hist,
                                Msg("assistant", "applied", file_path, <<>>, <<>>))]

\* an apply_diff_edit that writes the file and leaves the conversation's
\* "Content of file" messages as they were
apply_diff_edit_keeps_context(path, original_snippet, new_snippet, w) ==
    LET file_path == Join(project_dir, path)
        err == ReadError(w.fs, file_path)
        content == read_local_file(w.fs, file_path)
        updated_content == str_replace(content, original_snippet, new_snippet, 1)
        created == create_file(path, updated_content, w)
    IN  IF err = "FileNotFoundError"
        THEN [w EXCEPT !.out = Append(w.out, Report("file_not_found", file_path))]
        ELSE IF err # "none" THEN [w EXCEPT !.exc = err]
        ELSE IF str_contains(original_snippet, content)
        THEN IF created.exc # "none" THEN created
             ELSE [created EXCEPT
                     !.out = Append(created.out, Report("applied", file_path)),
                     !.hist = Append(SubSeq(created.hist, 1, Len(created.hist) - 1),
                                     Msg("assistant", "applied", file_path, <<>>, <<>>))]
        ELSE [w EXCEPT !.out = Append(w.out, Report("snippet_not_found", file_path))]

apply_diff_edit(path, original_snippet, new_snippet, w) ==
    LET file_path == Join(project_dir, path)
        err == ReadError(w.fs, file_path)
        content == read_local_file(w.fs, file_path)
        updated_content == str_replace(content, original_snippet, new_snippet, 1)
        created == create_file(path, updated_content, w)
    IN  IF err = "FileNotFoundError"
        THEN [w EXCEPT !.out = Append(w.out, Report("file_not_found", file_path))]
        ELSE IF err # "none" THEN [w EXCEPT !.exc = err]
        ELSE IF str_contains(original_snippet, content)
        THEN IF created.exc # "none" THEN created
             ELSE [created EXCEPT
                     !.out = Append(created.out, Report("applied", file_path)),
                     !.hist = Append(created.hist,
                                     Msg("assistant", "applied", file_path, <<>>, <<>>))]
        ELSE [w EXCEPT !.out = Append(w.out, Report("snippet_not_found", file_path))]

(***************************************************************************)
(* try_handle_add_command, for a line that starts with "/add "             *)
(***************************************************************************)
\* a handler that takes a file it cannot open for an empty one and adds it
try_handle_add_command_adds_missing(file_path, w) ==
    LET err == ReadError(w.fs, file_path)
        content == IF err = "none" THEN read_local_file(w.fs, file_path) ELSE <<>>
    IN  IF err = "none" \/ IsOSError(err)
        THEN [w EXCEPT !.hist = Append(w.hist, FileMsg(file_path, content)),
                       !.out = Append(w.out, Report("added", file_path))]
        ELSE [w EXCEPT !.exc = err]

try_handle_add_command(file_path, w) ==
    LET err == ReadError(w.fs, file_path)
        content == read_local_file(w.fs, file_path)
    IN  IF err = "none"
        THEN [w EXCEPT !.hist = Append(w.hist, FileMsg(file_path, content)),
                       !.out = Append(w.out, Report("added", file_path))]
        ELSE IF IsOSError(err)
        THEN [w EXCEPT !.out = Append(w.out, ErrorReport("could_not_add", file_path, err))]
        ELSE [w EXCEPT !.exc = err]

(***************************************************************************)
(* ensure_file_in_context: <<the world after, the value returned>>         *)
(***************************************************************************)
\* a version that answers whether the file can be read and appends nothing
ensure_file_in_context_reads_only(file_path, w) ==
    LET normalized_path == normalize_path(file_path)
        err == ReadError(w.fs, normalized_path)
    IN  IF err = "none" THEN <<w, TRUE>>
        ELSE IF IsOSError(err)
        THEN <<[w EXCEPT !.out = Append(w.out, Report("could_not_read", file_path))],
               FALSE>>
        ELSE <<[w EXCEPT !.exc = err], FALSE>>

ensure_file_in_context(file_path, w) ==
    LET normalized_path == normalize_path(file_path)
        err == ReadError(w.fs, normalized_path)
        content == read_local_file(w.fs, normalized_path)
    IN  IF err = "none"
        THEN IF ~has_marker(w.hist, normalized_path)
             THEN <<[w EXCEPT !.hist = Append(w.hist, FileMsg(normalized_path, content))],
                    TRUE>>
             ELSE <<w, TRUE>>
        ELSE IF IsOSError(err)
        THEN <<[w EXCEPT !.out = Append(w.out, Report("could_not_read", file_path))],
               FALSE>>
        ELSE <<[w EXCEPT !.exc = err], FALSE>>

(***************************************************************************)
(* guess_files_in_message.  A word of the user's message is a path string; *)
(* Extensions are the parts that hold a recognized extension.              *)
(***************************************************************************)
Extensions == {"a.py", "b.py"}

recognized(word) ==
    \/ \E k \in DOMAIN word : \E part \in Range(word[k]) : part \in Extensions
    \/ Len(word) > 1
    \/ IsAbs(word)

RECURSIVE guess_files_in_message(_)
guess_files_in_message(words) ==
    IF words = <<>> THEN <<>>
    ELSE IF recognized(Head(words)) /\ ~PathError(Head(words))
         THEN <<normalize_path(Head(words))>> \o guess_files_in_message(Tail(words))
         ELSE guess_files_in_message(Tail(words))

(***************************************************************************)
(* The backend's stream.  A line is empty, malformed (no JSON), illtyped   *)
(* (JSON that is no chunk object), a chunk without message content, or a   *)
(* chunk with a content fragment.  A fragment is a sequence of tokens of   *)
(* the JSON text.                                                          *)
(***************************************************************************)
Tok(t) == [t |-> t, text |-> <<>>, list |-> <<>>, bad |-> FALSE]

LBrace == Tok("{")

RBrace == Tok("}")

\* a JSON text that is no object
Scalar == Tok("3")

\* "assistant_reply": text
ReplyMember(text) == [Tok("assistant_reply") EXCEPT !.text = text]

\* "files_to_create": [...]
CreateMember(list) == [Tok("files_to_create") EXCEPT !.list = list]

\* "files_to_create": 3, which is no list
BadCreateMember == [Tok("files_to_create") EXCEPT !.bad = TRUE]

\* "files_to_edit": [...]
EditMember(list) == [Tok("files_to_edit") EXCEPT !.list = list]

IsMember(tok) == tok.t \in {"assistant_reply", "files_to_create", "files_to_edit"}

Line(kind, fragment) == [kind |-> kind, fragment |-> fragment]

\* the for loop over response.iter_lines(): the buffer after the lines, and
\* the exception that ended the loop.  An empty line and a line json.loads
\* rejects are passed over; a line that decodes to something the tests
\* `"message" in chunk`, `"content" in chunk["message"]` or the += cannot
\* take (null, a number, a message that is null) raises TypeError.
RECURSIVE accumulate(_, _)
accumulate(buffer, lines) ==
    IF lines = <<>> THEN [buffer |-> buffer, exc |-> "none"]
    ELSE IF Head(lines).kind = "content"
         THEN accumulate(buffer \o Head(lines).fragment, Tail(lines))
         ELSE IF Head(lines).kind = "illtyped"
         THEN [buffer |-> buffer, exc |-> "TypeError"]
         ELSE accumulate(buffer, Tail(lines))

\* json.loads of the buffer: an object is  { member* } , a member given twice
\* keeps its last value
IsObjectText(text) ==
    /\ Len(text) >= 2
    /\ text[1] = LBrace
    /\ text[Len(text)] = RBrace
    /\ \A k \in 2..(Len(text) - 1) : IsMember(text[k])

JsonError(text) == ~(text = <<Scalar>> \/ IsObjectText(text))

\* the dict's keys, and its value at a key
Keys(text) == {text[k].t : k \in 2..(Len(text) - 1)}

Value(text, key) ==
    LET last == CHOOSE k \in 2..(Len(text) - 1) :
                    /\ text[k].t = key
                    /\ \A j \in (k + 1)..(Len(text) - 1) : text[j].t # key
    IN  text[last]

(***************************************************************************)
(* stream_openai_response                                                  *)
(***************************************************************************)
\* valid_files[path] = content
Put(valid, path, content) ==
    [q \in (DOMAIN valid) \cup {path} |-> IF q = path THEN content ELSE valid[q]]

\* the for loop over potential_paths: <<the world after, valid_files>>
RECURSIVE preload(_, _, _)
preload(paths, w, valid) ==
    IF paths = <<>> THEN <<w, valid>>
    ELSE LET path == Head(paths)
             err == ReadError(w.fs, path)
             content == read_local_file(w.fs, path)
         IN  IF err = "none"
             THEN preload(Tail(paths),
                          IF ~has_marker(w.hist, path)
                          THEN [w EXCEPT !.hist = Append(w.hist, FileMsg(path, content))]
                          ELSE w,
                          Put(valid, path, content))
             ELSE IF IsOSError(err)
             THEN preload(Tail(paths),
                          [w EXCEPT !.out = Append(w.out, Report("cannot_proceed", path))],
                          valid)
             ELSE <<[w EXCEPT !.exc = err], valid>>

\* a loop that keeps every proposed edit, its path made canonical, whether or
\* not its file can be read
filter_edits_keeps_unreadable(edits, w, valid, new_files_to_edit) ==
    <<w, new_files_to_edit
            \o [k \in DOMAIN edits |->
                    [edits[k] EXCEPT !.path = normalize_path(edits[k].path)]]>>

\* the for loop over parsed_response["files_to_edit"]:
\* <<the world after, new_files_to_edit>>
RECURSIVE filter_edits(_, _, _, _)
filter_edits(edits, w, valid, new_files_to_edit) ==
    IF edits = <<>> THEN <<w, new_files_to_edit>>
    ELSE LET edit == Head(edits)
             edit_abs_path == normalize_path(edit.path)
             ensured == ensure_file_in_context(edit_abs_path, w)
             kept == Append(new_files_to_edit, [edit EXCEPT !.path = edit_abs_path])
             skipped == [w EXCEPT !.out = Append(w.out, Report("skip_invalid_path", edit.path))]
         IN  IF PathError(edit.path)
             THEN filter_edits(Tail(edits), skipped, valid, new_files_to_edit)
             ELSE IF edit_abs_path \in DOMAIN valid
             THEN filter_edits(Tail(edits), w, valid, kept)
             ELSE IF ensured[1].exc # "none"
             THEN filter_edits(Tail(edits), skipped, valid, new_files_to_edit)
             ELSE IF ensured[2]
             THEN filter_edits(Tail(edits), ensured[1], valid, kept)
             ELSE filter_edits(Tail(edits), ensured[1], valid, new_files_to_edit)

\* what the call leaves: the world, valid_files, full_content, and the
\* AssistantResponse returned (when w.exc = "none")
Outcome(w, valid, buffer, returned) ==
    [w |-> w, valid_files |-> valid, full_content |-> buffer, response |-> returned]

\* a handler that returns the failure without its text
api_error_silent(w, valid, buffer, e) ==
    Outcome([w EXCEPT !.out = Append(w.out, ErrorReport("api_error", NoPath, e))],
            valid, buffer,
            AssistantResponse(<<>>, Some(<<>>), None))

\* the handler of `except Exception as e`
api_error(w, valid, buffer, e) ==
    Outcome([w EXCEPT !.out = Append(w.out, ErrorReport("api_error", NoPath, e))],
            valid, buffer,
            AssistantResponse(ApiErrorMsg(e), Some(<<>>), None))

\* no handler for json.JSONDecodeError: the exception leaves the call
json_error_uncaught(w, valid, buffer) ==
    Outcome([w EXCEPT !.exc = "JSONDecodeError"], valid, buffer,
            AssistantResponse(<<>>, None, None))

\* the handler of `except json.JSONDecodeError`
json_error(w, valid, buffer) ==
    Outcome([w EXCEPT !.out = Append(w.out, Report("json_error", NoPath))],
            valid, buffer,
            AssistantResponse(JsonErrorMsg, Some(<<>>), None))

\* a try block without the default for assistant_reply: AssistantResponse
\* rejects a response that has none
parse_response_requires_reply(w, valid, buffer) ==
    LET keys == Keys(buffer)
        assistant_reply == IF "assistant_reply" \in keys
                           THEN Value(buffer, "assistant_reply").text
                           ELSE <<>>
        proposed == IF "files_to_edit" \in keys
                    THEN Value(buffer, "files_to_edit").list
                    ELSE <<>>
        filtered == IF proposed # <<>>
                    THEN filter_edits(proposed, w, valid, <<>>)
                    ELSE <<w, <<>>>>
        files_to_create == IF "files_to_create" \in keys
                           THEN Some(Value(buffer, "files_to_create").list)
                           ELSE None
        files_to_edit == IF "files_to_edit" \in keys THEN Some(filtered[2]) ELSE None
        w1 == filtered[1]
    IN  IF JsonError(buffer) THEN json_error(w, valid, buffer)
        ELSE IF buffer = <<Scalar>>
        THEN api_error(w, valid, buffer, "TypeError")
        ELSE IF "assistant_reply" \notin keys
        THEN api_error(w1, valid, buffer, "ValidationError")
        ELSE IF "files_to_create" \in keys /\ Value(buffer, "files_to_create").bad
        THEN api_error(w1, valid, buffer, "ValidationError")
        ELSE Outcome([w1 EXCEPT !.hist = Append(w1.hist,
                          Msg("assistant", "reply", NoPath, assistant_reply, <<>>))],
                     valid, buffer,
                     AssistantResponse(assistant_reply, files_to_create, files_to_edit))

\* the try block after the stream is exhausted
parse_response(w, valid, buffer) ==
    LET keys == Keys(buffer)
        assistant_reply == IF "assistant_reply" \in keys
                           THEN Value(buffer, "assistant_reply").text
                           ELSE <<>>
        proposed == IF "files_to_edit" \in keys
                    THEN Value(buffer, "files_to_edit").list
                    ELSE <<>>
        filtered == IF proposed # <<>>
                    THEN filter_edits(proposed, w, valid, <<>>)
                    ELSE <<w, <<>>>>
        files_to_create == IF "files_to_create" \in keys
                           THEN Some(Value(buffer, "files_to_create").list)
                           ELSE None
        files_to_edit == IF "files_to_edit" \in keys THEN Some(filtered[2]) ELSE None
        w1 == filtered[1]
    IN  IF JsonError(buffer) THEN json_error(w, valid, buffer)
        ELSE IF buffer = <<Scalar>>
        THEN api_error(w, valid, buffer, "TypeError")
        ELSE IF "files_to_create" \in keys /\ Value(buffer, "files_to_create").bad
        THEN api_error(w1, valid, buffer, "ValidationError")
        ELSE Outcome([w1 EXCEPT !.hist = Append(w1.hist,
                          Msg("assistant", "reply", NoPath, assistant_reply, <<>>))],
                     valid, buffer,
                     AssistantResponse(assistant_reply, files_to_create, files_to_edit))

\* a call that appends the user's message first and reads the files after it
stream_openai_response_user_first(words, paths, backend, w) ==
    LET loaded == preload(paths,
                          [w EXCEPT !.hist = Append(w.hist,
                                                    Msg("user", "user", NoPath, <<>>, words))],
                          <<>>)
        w1 == loaded[1]
        valid == loaded[2]
        w2 == w1
        streamed == accumulate(<<>>, backend.lines)
        buffer == streamed.buffer
    IN  IF w1.exc # "none"
        THEN Outcome(w1, valid, <<>>, AssistantResponse(<<>>, None, None))
                 @@ [messages |-> <<>>]
        ELSE (IF backend.fail # "none" THEN api_error(w2, valid, <<>>, backend.fail)
              ELSE IF streamed.exc # "none" THEN api_error(w2, valid, buffer, streamed.exc)
              ELSE parse_response(w2, valid, buffer))
                 @@ [messages |-> w2.hist]

\* backend: the exception of requests.post / raise_for_status ("none": the
\* stream opens) and the lines of the stream
stream_openai_response(words, paths, backend, w) ==
    LET loaded == preload(paths, w, <<>>)
        w1 == loaded[1]
        valid == loaded[2]
        w2 == [w1 EXCEPT !.hist = Append(w1.hist,
                                         Msg("user", "user", NoPath, <<>>, words))]
        streamed == accumulate(<<>>, backend.lines)
        buffer == streamed.buffer
    IN  IF w1.exc # "none"
        THEN Outcome(w1, valid, <<>>, AssistantResponse(<<>>, None, None))
                 @@ [messages |-> <<>>]
        ELSE (IF backend.fail # "none" THEN api_error(w2, valid, <<>>, backend.fail)
              ELSE IF streamed.exc # "none" THEN api_error(w2, valid, buffer, streamed.exc)
              ELSE parse_response(w2, valid, buffer))
                 @@ [messages |-> w2.hist]

(***************************************************************************)
(* get_unique_project_dir.  existing: the names that exist under           *)
(* projects_dir; f"{base_name}-{counter}" appends the counter as a part.   *)
(***************************************************************************)
Suffixed(base_name, counter) == Append(base_name, ToString(counter))

\* the while loop: the first counter whose name does not exist
RECURSIVE probe(_, _, _)
probe(base_name, existing, counter) ==
    IF Suffixed(base_name, counter) \in existing
    THEN probe(base_name, existing, counter + 1)
    ELSE counter

\* a version without the while loop: the suffix is always 1
get_unique_project_dir_first_suffix(base_name, existing) ==
    IF base_name \notin existing THEN base_name
    ELSE Suffixed(base_name, 1)

get_unique_project_dir(base_name, existing) ==
    IF base_name \notin existing THEN base_name
    ELSE Suffixed(base_name, probe(base_name, existing, 1))

(***************************************************************************)
(* What the user and the backend may send in a session.                    *)
(***************************************************************************)
UnnamedProject == <<"unnamed", "project">>

\* the names get_project_name may answer ("foo-1" is a name of its own)
ProjectNames == {UnnamedProject, <<"foo">>, <<"foo", "1">>}

projects_dir == <<<<"projects">>>>

\* path strings: a.py relative to the working directory, the same absolute,
\* a.py of the project directory, and a string with an embedded NUL
rel_a == <<<<"a.py">>>>

abs_a == cwd \o rel_a

proj_a(dir) == dir \o rel_a

nul_path == <<<<"NUL">>>>

\* ../../a.py : from the project directory, a.py of the working directory
up_a == <<<<"..">>, <<"..">>>> \o rel_a

\* the first word of an "/add <file_path>" line: as a path string, /add
slash_add == <<Root, <<"add">>>>

\* the project directories of the sessions that touch files
SessionDirs == {projects_dir \o <<n>> : n \in {UnnamedProject, <<"foo">>}}

\* every canonical path the model's path strings resolve to
AllFiles ==
    {normalize_path(abs_a), normalize_path(slash_add)}
        \cup {normalize_path(proj_a(dir)) : dir \in SessionDirs}

\* the user's lines: a plain word, and a.py mentioned
plain == <<<<"fix">>>>

ChatMessages == {<<plain>>, <<plain, rel_a>>}

AddPaths == {rel_a, abs_a}

\* the answers to the confirmation prompt, as typed
Answers == {<<"y">>, <<" ", "Y">>, <<"n">>, <<"y", "e", "s">>, <<>>}

\* str.strip() and str.lower() of an answer
RECURSIVE lstrip(_)
lstrip(text) == IF text # <<>> /\ Head(text) = " " THEN lstrip(Tail(text)) ELSE text

RECURSIVE rstrip(_)
rstrip(text) ==
    IF text # <<>> /\ text[Len(text)] = " "
    THEN rstrip(SubSeq(text, 1, Len(text) - 1))
    ELSE text

strip(text) == rstrip(lstrip(text))

lower(text) ==
    [k \in DOMAIN text |-> CASE text[k] = "Y" -> "y"
                             [] text[k] = "N" -> "n"
                             [] OTHER -> text[k]]

Lists(S, n) == UNION {[1..k -> S] : k \in 0..n}

\* the JSON text of a response: each member present (a one-token sequence) or
\* not (the empty sequence)
Document(reply, creates, edits) ==
    <<LBrace>> \o reply \o creates \o edits \o <<RBrace>>

Backend(fail, lines) == [fail |-> fail, lines |-> lines]

\* a text as the stream delivers it: in one chunk, or cut in two around a
\* malformed line, an empty line and a chunk without content, or cut in two
\* around a line that is JSON of the wrong type
Streams(text) ==
    {<<Line("content", text)>>}
        \cup {<<Line("content", SubSeq(text, 1, k)), Line("malformed", <<>>),
                Line("empty", <<>>), Line("nocontent", <<>>),
                Line("content", SubSeq(text, k + 1, Len(text)))>> : k \in {1} \cap DOMAIN text}
        \cup {<<Line("content", SubSeq(text, 1, k)), Line("illtyped", <<>>),
                Line("content", SubSeq(text, k + 1, Len(text)))>> : k \in {1} \cap DOMAIN text}

\* the edit and the creation a response proposes for a path
EditOf(path) == FileToEdit(path, <<"a">>, <<"LF">>)

CreateOf(path) == FileToCreate(path, <<"a">>)

\* the edit that takes back what EditOf put in
UndoOf(path) == FileToEdit(path, <<"LF">>, <<"a">>)

\* texts that do not decode as the response: no JSON (empty, cut short), JSON
\* that is no object, an object whose files_to_create is no list
BrokenDocuments ==
    {<<>>, <<LBrace, ReplyMember(<<"a">>)>>, <<Scalar>>,
     <<LBrace, ReplyMember(<<"a">>), BadCreateMember, RBrace>>,
     <<LBrace, BadCreateMember, RBrace>>}

\* the backends of a whole session: a failed call, a text cut short, and the
\* responses with at most one creation and a few lists of edits, in one chunk
SessionDocuments(dir) ==
    {Document(<<ReplyMember(<<"a">>)>>, creates, edits) :
        creates \in {<<>>, <<CreateMember(<<CreateOf(rel_a)>>)>>,
                     <<CreateMember(<<CreateOf(abs_a)>>)>>},
        edits \in {<<>>, <<EditMember(<<EditOf(rel_a)>>)>>,
                   <<EditMember(<<EditOf(proj_a(dir))>>)>>,
                   <<EditMember(<<EditOf(rel_a), EditOf(rel_a)>>)>>}}

SessionBackends(dir) ==
    {Backend("ConnectionError", <<>>)}
        \cup {Backend("none", <<Line("content", text)>>) :
                text \in SessionDocuments(dir) \cup {<<LBrace, ReplyMember(<<"a">>)>>}}

\* the backends of the single turn: every response with or without a reply,
\* with at most one creation and at most MaxEdits edits, the broken texts,
\* each in one chunk and cut in two
TurnDocuments(dir) ==
    {Document(reply, creates, edits) :
        reply \in {<<>>, <<ReplyMember(<<"a">>)>>},
        creates \in {<<>>} \cup {<<CreateMember(l)>> :
                                    l \in Lists({CreateOf(rel_a), CreateOf(abs_a), CreateOf(up_a)}, 1)},
        edits \in {<<>>} \cup {<<EditMember(l)>> :
                                  l \in Lists({EditOf(rel_a), EditOf(proj_a(dir)),
                                               EditOf(nul_path), UndoOf(rel_a)},
                                              MaxEdits)}}

TurnBackends(dir) ==
    {Backend("ConnectionError", <<>>)}
        \cup {Backend("none", lines) :
                lines \in UNION {Streams(text) : text \in TurnDocuments(dir) \cup BrokenDocuments}}

\* the states a.py of the working directory may be in when the session starts
SessionFiles ==
    {Absent, File(<<"a", "a">>, "rw", TRUE), File(<<"a", "CR">>, "rw", TRUE),
     File(<<"a">>, "ro", TRUE), File(<<"a">>, "none", TRUE), File(<<"a">>, "rw", FALSE)}

(***************************************************************************)
(* main: the session.                                                      *)
(*   pc = "start"        before the project description is read            *)
(*        "scan"         about to scan the line for file references        *)
(*        "respond"      about to call stream_openai_response              *)
(*        "create"       in the for loop over files_to_create              *)
(*        "confirm"      the diff table is shown, waiting for the answer   *)
(*        "apply"        in the for loop over files_to_edit                *)
(*        "prompt"       waiting for the next line                         *)
(*        "finished"     the loop was left: "Session finished."            *)
(*        "crashed"      ended by an exception nothing caught              *)
(***************************************************************************)
NoResponse == AssistantResponse(<<>>, None, None)

\* no call of the backend yet
NoBackend == Backend("none", <<>>)

NoFiles == [p \in AllFiles |-> Absent]

\* what a turn worked on, once the turn is over
TurnResults ==
    /\ user_input' = <<>>
    /\ potential_paths' = <<>>
    /\ messages' = <<>>
    /\ response' = NoBackend
    /\ full_content' = <<>>
    /\ valid_files' = <<>>
    /\ response_data' = NoResponse
    /\ idx' = 0

TurnOver ==
    /\ TurnResults
    /\ confirm' = <<>>

TurnLocalsUnchanged ==
    UNCHANGED <<user_input, potential_paths, messages, response, full_content, valid_files, response_data, idx, confirm>>

\* the process ends with the exception exc: the traceback is the last output
Crash(w) ==
    /\ pc' = "crashed"
    /\ fs' = w.fs
    /\ conversation_history' = w.hist
    /\ console' = Append(w.out, ErrorReport("traceback", NoPath, w.exc))

SystemPrompt == Msg("system", "prompt", NoPath, <<>>, <<>>)

Init ==
    /\ pc = "start"
    /\ projects = {}
    /\ base_project_name = <<>>
    /\ project_dir = <<>>
    /\ fs \in {[NoFiles EXCEPT ![normalize_path(abs_a)] = f] : f \in SessionFiles}
    /\ conversation_history = <<SystemPrompt>>
    /\ user_input = <<>>
    /\ potential_paths = <<>>
    /\ messages = <<>>
    /\ response = NoBackend
    /\ full_content = <<>>
    /\ valid_files = <<>>
    /\ response_data = NoResponse
    /\ idx = 0
    /\ confirm = <<>>
    /\ console = <<>>
    /\ turns = 0

\* main, up to the first turn: the description is read, the project is named
\* (get_project_name answers name) and its directory made
StartSession(project_description, name) ==
    /\ pc = "start"
    /\ base_project_name' = IF project_description = <<>> THEN UnnamedProject ELSE name
    /\ LET project_name == get_unique_project_dir(base_project_name', projects)
       IN  /\ projects' = projects \cup {project_name}
           /\ project_dir' = projects_dir \o <<project_name>>
    /\ pc' = IF project_description = <<>> THEN "prompt" ELSE "scan"
    /\ user_input' = project_description
    /\ console' = <<Report("project_directory", project_dir')>>
    /\ UNCHANGED <<fs, conversation_history, potential_paths, messages, response, full_content, valid_files,
                   response_data, idx, confirm, turns>>

\* the prompt: an empty line
InputEmpty ==
    /\ pc = "prompt" /\ turns < MaxTurns
    /\ turns' = turns + 1
    /\ user_input' = <<>>
    /\ console' = <<>>
    /\ UNCHANGED <<pc, projects, base_project_name, project_dir, fs, conversation_history,
                   potential_paths, messages, response, full_content, valid_files, response_data, idx, confirm>>

\* the prompt: exit or quit
InputExit ==
    /\ pc = "prompt"
    /\ pc' = "finished"
    /\ console' = <<Report("goodbye", NoPath), Report("session_finished", NoPath)>>
    /\ UNCHANGED <<projects, base_project_name, project_dir, fs, conversation_history, turns>>
    /\ TurnLocalsUnchanged

\* the prompt: EOFError or KeyboardInterrupt
InputInterrupt ==
    /\ pc = "prompt"
    /\ pc' = "finished"
    /\ console' = <<Report("exiting", NoPath), Report("session_finished", NoPath)>>
    /\ UNCHANGED <<projects, base_project_name, project_dir, fs, conversation_history, turns>>
    /\ TurnLocalsUnchanged

\* a loop without the `continue` after the /add handler: the line goes on to
\* the assistant
InputAdd_falls_through(file_path) ==
    /\ pc = "prompt" /\ turns < MaxTurns
    /\ turns' = turns + 1
    /\ LET w == try_handle_add_command(file_path,
                                       World(fs, conversation_history, <<>>, "none"))
       IN  IF w.exc # "none" THEN Crash(w)
           ELSE /\ pc' = "scan"
                /\ fs' = w.fs
                /\ conversation_history' = w.hist
                /\ console' = w.out
    /\ user_input' = <<slash_add, file_path>>
    /\ UNCHANGED <<projects, base_project_name, project_dir, potential_paths, messages, response, full_content,
                   valid_files, response_data, idx, confirm>>

\* the prompt: "/add <file_path>"
InputAdd(file_path) ==
    /\ pc = "prompt" /\ turns < MaxTurns
    /\ turns' = turns + 1
    /\ LET w == try_handle_add_command(file_path,
                                       World(fs, conversation_history, <<>>, "none"))
       IN  IF w.exc # "none" THEN Crash(w)
           ELSE /\ pc' = "prompt"
                /\ fs' = w.fs
                /\ conversation_history' = w.hist
                /\ console' = w.out
    /\ user_input' = <<slash_add, file_path>>
    /\ UNCHANGED <<projects, base_project_name, project_dir, potential_paths, messages, response, full_content,
                   valid_files, response_data, idx, confirm>>

\* the prompt: any other line
InputChat(words) ==
    /\ pc = "prompt" /\ turns < MaxTurns
    /\ turns' = turns + 1
    /\ pc' = "scan"
    /\ user_input' = words
    /\ console' = <<>>
    /\ UNCHANGED <<projects, base_project_name, project_dir, fs, conversation_history, potential_paths, messages, response, full_content,
                   valid_files, response_data, idx, confirm>>

\* stream_openai_response, its first statement:
\* potential_paths = guess_files_in_message(user_message)
Scan ==
    /\ pc = "scan"
    /\ pc' = "respond"
    /\ potential_paths' = guess_files_in_message(user_input)
    /\ UNCHANGED <<projects, base_project_name, project_dir, fs, conversation_history,
                   user_input, messages, response, full_content, valid_files,
                   response_data, idx, confirm, console, turns>>

\* response_data = stream_openai_response(user_input), after the scan
Respond(backend) ==
    /\ pc = "respond"
    /\ LET o == stream_openai_response(user_input, potential_paths, backend,
                                       World(fs, conversation_history, <<>>, "none"))
       IN  IF o.w.exc # "none"
           THEN /\ Crash(o.w)
                /\ valid_files' = o.valid_files
                /\ UNCHANGED <<messages, response, full_content, response_data, idx>>
           ELSE /\ pc' = "create"
                /\ fs' = o.w.fs
                /\ conversation_history' = o.w.hist
                /\ console' = o.w.out
                /\ response' = backend
                /\ messages' = o.messages
                /\ full_content' = o.full_content
                /\ valid_files' = o.valid_files
                /\ response_data' = o.response
                /\ idx' = 1
    /\ UNCHANGED <<projects, base_project_name, project_dir, user_input,
                   potential_paths, confirm, turns>>

\* the for loop over files_to_create has an entry left
MoreCreates ==
    /\ Truthy(response_data.files_to_create)
    /\ idx <= Len(response_data.files_to_create.val)

\* one pass of  for file_info in response_data.files_to_create
CreateFile ==
    /\ pc = "create"
    /\ MoreCreates
    /\ LET file_info == response_data.files_to_create.val[idx]
           w == create_file(file_info.path, file_info.content,
                            World(fs, conversation_history, <<>>, "none"))
       IN  IF w.exc # "none"
           THEN Crash(w) /\ idx' = idx
           ELSE /\ pc' = "create"
                /\ fs' = w.fs
                /\ conversation_history' = w.hist
                /\ console' = w.out
                /\ idx' = idx + 1
    /\ UNCHANGED <<projects, base_project_name, project_dir, user_input, potential_paths, messages, response, full_content,
                   valid_files, response_data, confirm, turns>>

\* a main that shows the edits first and leaves the creations that remain
ShowEdits_before_creates ==
    /\ pc = "create"
    /\ IF Truthy(response_data.files_to_edit)
       THEN /\ pc' = "confirm"
            /\ console' = <<Report("diff_table", NoPath)>>
            /\ idx' = 1
            /\ UNCHANGED <<user_input, potential_paths, messages, response, full_content, valid_files, response_data, confirm>>
       ELSE /\ pc' = "prompt"
            /\ console' = <<>>
            /\ TurnOver
    /\ UNCHANGED <<projects, base_project_name, project_dir, fs, conversation_history, turns>>

\* after the creations:  if response_data.files_to_edit:  show_diff_table and
\* ask, else back to the prompt
ShowEdits ==
    /\ pc = "create"
    /\ ~MoreCreates
    /\ IF Truthy(response_data.files_to_edit)
       THEN /\ pc' = "confirm"
            /\ console' = <<Report("diff_table", NoPath)>>
            /\ idx' = 1
            /\ UNCHANGED <<user_input, potential_paths, messages, response, full_content, valid_files, response_data, confirm>>
       ELSE /\ pc' = "prompt"
            /\ console' = <<>>
            /\ TurnOver
    /\ UNCHANGED <<projects, base_project_name, project_dir, fs, conversation_history, turns>>

\* a gate that takes every answer but "n" for a yes
Confirm_unless_no(answer) ==
    /\ pc = "confirm"
    /\ confirm' = lower(strip(answer))
    /\ IF confirm' # <<"n">>
       THEN /\ pc' = "apply"
            /\ console' = <<>>
            /\ UNCHANGED <<user_input, potential_paths, messages, response, full_content, valid_files, response_data, idx>>
       ELSE /\ pc' = "prompt"
            /\ console' = <<Report("skipped", NoPath)>>
            /\ TurnResults
    /\ UNCHANGED <<projects, base_project_name, project_dir, fs, conversation_history, turns>>

\* the answer to "Do you want to apply these changes?"
Confirm(answer) ==
    /\ pc = "confirm"
    /\ confirm' = lower(strip(answer))
    /\ IF confirm' = <<"y">>
       THEN /\ pc' = "apply"
            /\ console' = <<>>
            /\ UNCHANGED <<user_input, potential_paths, messages, response, full_content, valid_files, response_data, idx>>
       ELSE /\ pc' = "prompt"
            /\ console' = <<Report("skipped", NoPath)>>
            /\ TurnResults
    /\ UNCHANGED <<projects, base_project_name, project_dir, fs, conversation_history, turns>>

\* a loop that is left at the first edit that is not applied
ApplyEdit_stops_at_failure ==
    /\ pc = "apply"
    /\ LET edit_info == response_data.files_to_edit.val[idx]
           w == apply_diff_edit(edit_info.path, edit_info.original_snippet,
                                edit_info.new_snippet,
                                World(fs, conversation_history, <<>>, "none"))
           last == idx = Len(response_data.files_to_edit.val)
       IN  IF w.exc # "none"
           THEN Crash(w) /\ TurnLocalsUnchanged
           ELSE /\ fs' = w.fs
                /\ conversation_history' = w.hist
                /\ console' = w.out
                /\ IF ~last /\ Report("applied", Join(project_dir, edit_info.path)) \in Range(w.out)
                   THEN /\ pc' = "apply"
                        /\ idx' = idx + 1
                        /\ UNCHANGED <<user_input, potential_paths, messages, response, full_content, valid_files,
                                       response_data, confirm>>
                   ELSE /\ pc' = "prompt"
                        /\ TurnOver
    /\ UNCHANGED <<projects, base_project_name, project_dir, turns>>

\* one pass of  for edit_info in response_data.files_to_edit
ApplyEdit ==
    /\ pc = "apply"
    /\ LET edit_info == response_data.files_to_edit.val[idx]
           w == apply_diff_edit(edit_info.path, edit_info.original_snippet,
                                edit_info.new_snippet,
                                World(fs, conversation_history, <<>>, "none"))
           last == idx = Len(response_data.files_to_edit.val)
       IN  IF w.exc # "none"
           THEN Crash(w) /\ TurnLocalsUnchanged
           ELSE /\ fs' = w.fs
                /\ conversation_history' = w.hist
                /\ console' = w.out
                /\ IF ~last
                   THEN /\ pc' = "apply"
                        /\ idx' = idx + 1
                        /\ UNCHANGED <<user_input, potential_paths, messages, response, full_content, valid_files,
                                       response_data, confirm>>
                   ELSE /\ pc' = "prompt"
                        /\ TurnOver
    /\ UNCHANGED <<projects, base_project_name, project_dir, turns>>

\* while the process waits for the answer, another process removes a file
\* the edits are about
FileRemoved(path) ==
    /\ pc = "confirm"
    /\ \E k \in DOMAIN response_data.files_to_edit.val :
           Target(response_data.files_to_edit.val[k].path) = path
    /\ fs[path].exists
    /\ fs' = [fs EXCEPT ![path] = Absent]
    /\ UNCHANGED <<pc, projects, base_project_name, project_dir, conversation_history, console, turns>>
    /\ TurnLocalsUnchanged

Next ==
    \/ \E d \in {<<>>, <<slash_add, rel_a>>} \cup ChatMessages : StartSession(d, <<"foo">>)
    \/ InputEmpty
    \/ InputExit
    \/ InputInterrupt
    \/ \E p \in AddPaths : InputAdd(p)
    \/ \E m \in ChatMessages : InputChat(m)
    \/ Scan
    \/ pc = "respond" /\ \E b \in SessionBackends(project_dir) : Respond(b)
    \/ CreateFile
    \/ ShowEdits
    \/ \E a \in Answers : Confirm(a)
    \/ ApplyEdit
    \/ pc = "confirm" /\ \E p \in AllFiles : FileRemoved(p)

\* the session, from its start
Spec == Init /\ [][Next]_vars

(***************************************************************************)
(* One turn, from the call of stream_openai_response to the next prompt,   *)
(* with every response of TurnBackends.  It starts in a session whose      *)
(* project is projects/foo: a.py of the working directory is in any state  *)
(* of SessionFiles and may have been added to the conversation, a.py of    *)
(* the project may have been created by an earlier turn.                   *)
(***************************************************************************)
FooDir == projects_dir \o <<<<"foo">>>>

\* the conversation of a session that has read a.py of the working directory
\* as it is now (if it can be read) and has created a.py of the project
HistoryOf(a_file, added, created) ==
    <<SystemPrompt>>
        \o (IF added /\ a_file.exists /\ a_file.mode # "none" /\ a_file.utf8
            THEN <<FileMsg(normalize_path(abs_a), universal_newlines(a_file.data))>>
            ELSE <<>>)
        \o (IF created
            THEN <<Msg("assistant", "created", proj_a(FooDir), <<>>, <<>>),
                   FileMsg(normalize_path(proj_a(FooDir)), <<"a">>)>>
            ELSE <<>>)

InSession(a_file, added, created) ==
    /\ projects = {<<"foo">>}
    /\ base_project_name = <<"foo">>
    /\ project_dir = FooDir
    /\ fs = [p \in AllFiles |->
                IF p = normalize_path(abs_a) THEN a_file
                ELSE IF p = normalize_path(proj_a(FooDir)) /\ created
                     THEN File(<<"a">>, "rw", TRUE)
                     ELSE Absent]
    /\ conversation_history = HistoryOf(a_file, added, created)
    /\ potential_paths = <<>>
    /\ messages = <<>>
    /\ response = NoBackend
    /\ full_content = <<>>
    /\ valid_files = <<>>
    /\ console = <<>>
    /\ turns = 1

InitTurn ==
    /\ pc = "scan"
    /\ user_input \in ChatMessages
    /\ response_data = NoResponse
    /\ idx = 0
    /\ confirm = <<>>
    /\ \E a_file \in SessionFiles, added \in BOOLEAN, created \in BOOLEAN :
           InSession(a_file, added, created)

NextTurn ==
    \/ Scan
    \/ pc = "respond" /\ \E b \in TurnBackends(project_dir) : Respond(b)
    \/ CreateFile
    \/ ShowEdits
    \/ \E a \in Answers : Confirm(a)
    \/ ApplyEdit
    \/ pc = "confirm" /\ \E p \in AllFiles : FileRemoved(p)

SpecTurn == InitTurn /\ [][NextTurn]_vars

(***************************************************************************)
(* The patcher alone: one accepted edit of a.py, for every content of the  *)
(* file up to MaxFileLen, every original_snippet up to MaxSnippetLen and   *)
(* every new_snippet up to MaxNewLen; the file may also be read-only,      *)
(* unreadable, no UTF-8, or gone.                                          *)
(***************************************************************************)
PatchFiles ==
    {Absent}
        \cup {File(data, "rw", TRUE) : data \in Texts(MaxFileLen)}
        \cup {File(<<"a">>, "ro", TRUE), File(<<"a">>, "none", TRUE), File(<<"a">>, "rw", FALSE)}

InitPatch ==
    /\ pc = "apply"
    /\ user_input = <<plain>>
    /\ idx = 1
    /\ confirm = <<"y">>
    /\ \E a_file \in PatchFiles : InSession(a_file, TRUE, FALSE)
    /\ \E original_snippet \in Texts(MaxSnippetLen), new_snippet \in Texts(MaxNewLen) :
           response_data =
               AssistantResponse(<<>>, None,
                   Some(<<FileToEdit(normalize_path(abs_a), original_snippet, new_snippet)>>))

NextPatch == ApplyEdit

SpecPatch == InitPatch /\ [][NextPatch]_vars

(***************************************************************************)
(* The start of a session alone, for every set of names that exist under   *)
(* projects/ and every name get_project_name may answer.                   *)
(***************************************************************************)
ExistingNames == ProjectNames \cup {Suffixed(b, k) : b \in ProjectNames, k \in 1..MaxSuffix}

InitUnique ==
    /\ pc = "start"
    /\ projects \in SUBSET ExistingNames
    /\ base_project_name = <<>>
    /\ project_dir = <<>>
    /\ fs = NoFiles
    /\ conversation_history = <<SystemPrompt>>
    /\ user_input = <<>>
    /\ potential_paths = <<>>
    /\ messages = <<>>
    /\ response = NoBackend
    /\ full_content = <<>>
    /\ valid_files = <<>>
    /\ response_data = NoResponse
    /\ idx = 0
    /\ confirm = <<>>
    /\ console = <<>>
    /\ turns = 0

NextUnique == \E d \in {<<>>, <<plain>>}, n \in ProjectNames : StartSession(d, n)

SpecUnique == InitUnique /\ [][NextUnique]_vars

(***************************************************************************)
(* C1.  conversation_history never holds two "Content of file" messages    *)
(* for the same canonical path.                                            *)
(***************************************************************************)
\* the places of the "Content of file" messages for the file path names
ContentMessages(hist, path) ==
    {i \in DOMAIN hist : /\ hist[i].kind = "file"
                         /\ normalize_path(hist[i].path) = normalize_path(path)}

\* C1: at every point of the session, for every file, at most one message of
\* conversation_history is a "Content of file" message for its canonical path
C1_OneContentMessagePerPath ==
    \A i \in DOMAIN conversation_history :
        conversation_history[i].kind = "file"
            => ContentMessages(conversation_history, conversation_history[i].path) = {i}

(***************************************************************************)
(* C2, C3, C4.  One call of apply_diff_edit, seen as the step ApplyEdit    *)
(* takes: the state before holds the file and the edit, the state after    *)
(* holds the file as the call leaves it, what was printed and the          *)
(* conversation.                                                           *)
(***************************************************************************)
\* the edit the next ApplyEdit step applies, and the file it is about
PendingEdit == response_data.files_to_edit.val[idx]

PendingFile == fs[Target(PendingEdit.path)]

\* T with the |S| characters at place i replaced by R
ReplacedAt(T, i, S, R) ==
    SubSeq(T, 1, i - 1) \o R \o SubSeq(T, i + Len(S), Len(T))

\* S occurs exactly once in T
OccursOnce(S, T) == Cardinality(Occurrences(S, T)) = 1

Leftmost(S, T) == CHOOSE i \in Occurrences(S, T) : \A j \in Occurrences(S, T) : i <= j

Reported(out, event) == \E k \in DOMAIN out : out[k].event = event

\* what ApplyEdit does to the file, the output and the conversation when the
\* edit is applied to the text T
AppliedTo(T, i) ==
    /\ fs'[Target(PendingEdit.path)].data =
           ReplacedAt(T, i, PendingEdit.original_snippet, PendingEdit.new_snippet)
    /\ Reported(console', "applied")
    /\ ~Reported(console', "snippet_not_found")
    /\ pc' # "crashed"

\* C2 as stated, T being the content of the file: whenever S occurs exactly
\* once in the content T of an existing file, the call leaves T with S
\* replaced by R in the file and reports the edit as applied
C2_AsStated ==
    [][(/\ pc = "apply"
        /\ PendingFile.exists
        /\ OccursOnce(PendingEdit.original_snippet, PendingFile.data))
       => AppliedTo(PendingFile.data,
                    Leftmost(PendingEdit.original_snippet, PendingFile.data))]_vars

\* the file can be read as UTF-8 text and written
Readable(file) == file.exists /\ file.mode # "none" /\ file.utf8

Writable(file) == file.exists /\ file.mode = "rw"

\* the text Python reads from the file: CR LF and CR are read as LF
TextOf(file) == universal_newlines(file.data)

\* C2: whenever an existing file can be read as UTF-8 and written, and S
\* occurs exactly once in T, the text read from it (CR LF and CR read as LF),
\* the call leaves T with S replaced by R in the file and reports the edit as
\* applied
C2_ReplacesOnlyOccurrence ==
    [][(/\ pc = "apply"
        /\ Readable(PendingFile) /\ Writable(PendingFile)
        /\ OccursOnce(PendingEdit.original_snippet, TextOf(PendingFile)))
       => AppliedTo(TextOf(PendingFile),
                    Leftmost(PendingEdit.original_snippet, TextOf(PendingFile)))]_vars

\* C2 happened: the conversation holds the text T read before the edit and the
\* text written by it, which is T with the only occurrence of some S replaced
C2_Witness ==
    /\ pc = "prompt"
    /\ Reported(console, "applied")
    /\ \E i, j \in DOMAIN conversation_history :
           /\ i < j
           /\ conversation_history[i].kind = "file"
           /\ conversation_history[j].kind = "file"
           /\ fs[Target(conversation_history[j].path)].data = conversation_history[j].text
           /\ \E S \in Texts(MaxSnippetLen) \ {<<>>}, R \in Texts(MaxNewLen) :
                  /\ OccursOnce(S, conversation_history[i].text)
                  /\ S # R
                  /\ conversation_history[j].text =
                         ReplacedAt(conversation_history[i].text,
                                    Leftmost(S, conversation_history[i].text), S, R)

\* what ApplyEdit does when the snippet is not found
NotApplied ==
    /\ fs' = fs
    /\ conversation_history' = conversation_history
    /\ Reported(console', "snippet_not_found")
    /\ ~Reported(console', "applied")
    /\ pc' # "crashed"

\* C3 as stated, T being the content of the file: whenever S does not occur
\* in the content T of an existing file, the call leaves the file as it is,
\* appends nothing to the conversation and reports the edit as not applied
C3_AsStated ==
    [][(/\ pc = "apply"
        /\ PendingFile.exists
        /\ ~str_contains(PendingEdit.original_snippet, PendingFile.data))
       => NotApplied]_vars

\* C3: whenever an existing file can be read as UTF-8 and S does not occur in
\* T, the text read from it (CR LF and CR read as LF), the call leaves the
\* file as it is, appends nothing to the conversation and reports the edit
\* as not applied
C3_AbsentSnippetChangesNothing ==
    [][(/\ pc = "apply"
        /\ Readable(PendingFile)
        /\ ~str_contains(PendingEdit.original_snippet, TextOf(PendingFile)))
       => NotApplied]_vars

\* C3 happened: the snippet was not found in a file that has a content
C3_Witness ==
    /\ pc = "prompt"
    /\ console = <<Report("snippet_not_found", normalize_path(abs_a))>>
    /\ fs[normalize_path(abs_a)].exists
    /\ fs[normalize_path(abs_a)].data # <<>>
    /\ conversation_history = HistoryOf(fs[normalize_path(abs_a)], TRUE, FALSE)

CanBeRead(files, path) == ~PathError(path) /\ ReadError(files, normalize_path(path)) = "none"

\* the proposed edits whose file can be read, in their order, by canonical path
RECURSIVE ReadableEdits(_, _)
ReadableEdits(edits, files) ==
    IF edits = <<>> THEN <<>>
    ELSE (IF CanBeRead(files, Head(edits).path)
          THEN <<[Head(edits) EXCEPT !.path = normalize_path(Head(edits).path)]>>
          ELSE <<>>)
         \o ReadableEdits(Tail(edits), files)

\* the backend's text is a response with a list of edits and nothing Pydantic
\* rejects
ProposesEdits(text) ==
    /\ IsObjectText(text)
    /\ "files_to_edit" \in Keys(text)
    /\ ~("files_to_create" \in Keys(text) /\ Value(text, "files_to_create").bad)

\* C5: in every response stream_openai_response returns, each edit of
\* files_to_edit has a canonical absolute path whose file was read in this
\* call (it can be read, and it is among valid_files or framed in the
\* conversation); the list is the proposed list without the edits whose file
\* cannot be read, in the proposed order; and the response still carries the
\* backend's reply and creations
C5_ReturnedEditsWereRead ==
    [][(pc = "respond" /\ pc' = "create")
       => LET returned == response_data'.files_to_edit.val
          IN  /\ \A k \in DOMAIN returned :
                     /\ IsAbs(returned[k].path)
                     /\ returned[k].path = normalize_path(returned[k].path)
                     /\ ReadError(fs, returned[k].path) = "none"
                     /\ \/ returned[k].path \in DOMAIN valid_files'
                        \/ has_marker(conversation_history', returned[k].path)
              /\ ProposesEdits(full_content')
                     => /\ response_data'.files_to_edit =
                               Some(ReadableEdits(Value(full_content', "files_to_edit").list, fs))
                        /\ response_data'.assistant_reply =
                               (IF "assistant_reply" \in Keys(full_content')
                                THEN Value(full_content', "assistant_reply").text
                                ELSE <<>>)
                        /\ response_data'.files_to_create =
                               (IF "files_to_create" \in Keys(full_content')
                                THEN Some(Value(full_content', "files_to_create").list)
                                ELSE None)]_vars

\* C5 happened: of two proposed edits one was returned, the other omitted,
\* and the response carries the backend's reply
C5_Witness ==
    /\ pc = "create"
    /\ ProposesEdits(full_content)
    /\ Len(Value(full_content, "files_to_edit").list) = 2
    /\ Len(response_data.files_to_edit.val) = 1
    /\ response_data.assistant_reply = <<"a">>

(***************************************************************************)
(* C6.  The confirmation gate.  confirm is the answer as main compares it: *)
(* stripped and in lower case.                                             *)
(***************************************************************************)
AppliedMessages(hist) == {i \in DOMAIN hist : hist[i].kind = "applied"}

\* C6: in every turn the loop over files_to_edit is entered only from the
\* confirmation prompt, after the diff table was shown, on the answer 'y',
\* and apply_diff_edit runs only inside that loop; on any other answer the
\* turn ends with no edit applied, no file modified and the edits dropped
C6_EditsOnlyAfterYes ==
    [][/\ (pc' = "apply" /\ pc # "apply")
           => /\ pc = "confirm"
              /\ console = <<Report("diff_table", NoPath)>>
              /\ confirm' = <<"y">>
       /\ pc = "apply" => confirm = <<"y">>
       /\ (\/ AppliedMessages(conversation_history') # AppliedMessages(conversation_history)
           \/ Reported(console', "applied"))
           => pc = "apply"
       /\ (pc = "confirm" /\ pc' # "confirm" /\ confirm' # <<"y">>)
           => /\ pc' = "prompt"
              /\ fs' = fs
              /\ conversation_history' = conversation_history
              /\ ~Reported(console', "applied")
              /\ response_data' = NoResponse]_vars

\* C6 happened: the user answered "yes", which is not 'y': the edits of a
\* file that could have been edited were skipped
C6_Witness ==
    /\ pc = "prompt"
    /\ confirm = <<"y", "e", "s">>
    /\ console = <<Report("skipped", NoPath)>>
    /\ Readable(fs[normalize_path(abs_a)]) /\ Writable(fs[normalize_path(abs_a)])
    /\ AppliedMessages(conversation_history) = {}

(***************************************************************************)
(* C7.  A backend output that is not the structured response, seen on the  *)
(* step Respond takes.                                                     *)
(***************************************************************************)
\* the text is no JSON, or JSON that is no object, or an object with a field
\* AssistantResponse rejects
Undecodable(text) ==
    \/ JsonError(text)
    \/ text = <<Scalar>>
    \/ IsObjectText(text) /\ "files_to_create" \in Keys(text)
                          /\ Value(text, "files_to_create").bad

UserMessages(hist) == {i \in DOMAIN hist : hist[i].kind = "user"}

\* the call got as far as sending the request: the user's message is appended
RequestSent == UserMessages(conversation_history') # UserMessages(conversation_history)

C8_NoErrorEndsTheSession == pc # "crashed"

(***************************************************************************)
(* C9.  A target that does not exist.                                      *)
(***************************************************************************)
\* the step reads an "/add <file_path>" line at the prompt
ReadsAddLine ==
    /\ pc = "prompt"
    /\ turns' # turns
    /\ Len(user_input') = 2
    /\ user_input'[1] = slash_add

\* C9: when the file an edit is about does not exist, the call reports
\* "file not found" for it, not "snippet not found"; when the file an /add
\* line names does not exist, the line is answered with the file-not-found
\* error; in both cases no file is created or modified, the conversation is
\* as it was, and the session goes on
C9_MissingTargetIsReported ==
    [][/\ (pc = "apply" /\ ~PathError(PendingEdit.path) /\ ~PendingFile.exists)
           => /\ console' = <<Report("file_not_found", Join(project_dir, PendingEdit.path))>>
              /\ ~Reported(console', "snippet_not_found")
              /\ fs' = fs
              /\ conversation_history' = conversation_history
              /\ pc' \in {"apply", "prompt"}
       /\ (ReadsAddLine /\ ~PathError(user_input'[2]) /\ ~fs[Target(user_input'[2])].exists)
           => /\ console' = <<ErrorReport("could_not_add", user_input'[2], "FileNotFoundError")>>
              /\ fs' = fs
              /\ conversation_history' = conversation_history
              /\ pc' = "prompt"]_vars

\* C9 happened: an accepted edit found its file gone and nothing was written
C9_Witness ==
    /\ pc = "prompt"
    /\ console = <<Report("file_not_found", normalize_path(abs_a))>>
    /\ ~fs[normalize_path(abs_a)].exists
    /\ AppliedMessages(conversation_history) = {}

(***************************************************************************)
(* C10.  The name of the project directory, seen on the step StartSession  *)
(* takes: projects are the names that exist before, project_dir' ends with *)
(* the name returned for base_project_name'.                               *)
(***************************************************************************)
\* C10: the name returned is the base name when no directory has it, else
\* base-k for the smallest k >= 1 no directory has; the search ends within
\* as many steps as there are directories; the name returned is never the
\* name of an existing directory
C10_UniqueProjectDir ==
    [][pc = "start"
       => LET base == base_project_name'
              name == project_dir'[Len(project_dir')]
          IN  /\ project_dir' = projects_dir \o <<name>>
              /\ name \notin projects
              /\ base \notin projects => name = base
              /\ base \in projects
                     => \E k \in 1..Cardinality(projects) :
                            /\ name = Suffixed(base, k)
                            /\ \A j \in 1..(k - 1) : Suffixed(base, j) \in projects]_vars

\* C10 happened: foo and foo-1 exist and the project was named foo-2
C10_Witness ==
    /\ pc # "start"
    /\ base_project_name = <<"foo">>
    /\ {<<"foo">>, <<"foo", "1">>} \subseteq projects
    /\ project_dir = projects_dir \o <<<<"foo", "2">>>>

(***************************************************************************)
(* C11.  The files a response creates.                                     *)
(***************************************************************************)
\* the entry the next CreateFile step writes, and the path string it opens
PendingCreate == response_data.files_to_create.val[idx]

CreatedPath(file_info) == Join(project_dir, file_info.path)

\* the conversation documents the content X of the file
Documents(hist, file_path, X) ==
    \E i \in DOMAIN hist : hist[i] = FileMsg(normalize_path(file_path), X)

\* the step ends a turn
EndsTurn == pc \in {"create", "confirm", "apply"} /\ pc' = "prompt"

\* C11 as stated: a turn whose response carries a files_to_create entry
\* (path, X) goes through, and when it ends the file at that path holds X and
\* the conversation documents X
C11_AsStated ==
    [][/\ (pc = "create" /\ MoreCreates) => pc' # "crashed"
       /\ EndsTurn
           => \A k \in DOMAIN response_data.files_to_create.val :
                  LET file_info == response_data.files_to_create.val[k]
                  IN  /\ fs'[Target(CreatedPath(file_info))].exists
                      /\ fs'[Target(CreatedPath(file_info))].data = file_info.content
                      /\ Documents(conversation_history', CreatedPath(file_info),
                                   file_info.content)]_vars

\* C11: when the file of a files_to_create entry (path, X) can be written,
\* create_file leaves at project_dir / path a file whose content is exactly
\* X, whatever it held before, touches no other file, and appends to the
\* conversation the note of the creation and the message with content X
C11_CreateWritesContent ==
    [][(/\ pc = "create" /\ MoreCreates
        /\ WriteError(fs, CreatedPath(PendingCreate)) = "none")
       => LET file_path == CreatedPath(PendingCreate)
              X == PendingCreate.content
          IN  /\ pc' = "create"
              /\ fs'[Target(file_path)].exists
              /\ fs'[Target(file_path)].data = X
              /\ \A q \in AllFiles \ {Target(file_path)} : fs'[q] = fs[q]
              /\ conversation_history' =
                     conversation_history
                         \o <<Msg("assistant", "created", file_path, <<>>, <<>>),
                              FileMsg(normalize_path(file_path), X)>>]_vars

\* C11 happened: a.py held "aa", as the conversation shows, and the entry
\* (/w/a.py, "a") was written over it and documented
C11_Witness ==
    /\ pc = "create"
    /\ idx = 2
    /\ response_data.files_to_create.val[1] = CreateOf(abs_a)
    /\ fs[normalize_path(abs_a)].data = <<"a">>
    /\ Documents(conversation_history, abs_a, <<"a", "a">>)
    /\ conversation_history[Len(conversation_history)] =
           FileMsg(normalize_path(abs_a), <<"a">>)

(***************************************************************************)
(* C12.  A backend call that fails, seen on the step Respond takes:        *)
(* response' is what the backend answered.                                 *)
(***************************************************************************)
\* hist is the beginning of later
StartsWith(later, hist) ==
    /\ Len(hist) <= Len(later)
    /\ SubSeq(later, 1, Len(hist)) = hist

\* C12: when the backend call fails with a network or HTTP error, the call
\* returns a response whose assistant_reply is the text of the error and
\* which proposes nothing to create and nothing to edit; the messages the
\* conversation held before the turn are as they were and no file is modified
C12_TransportErrorIsTheReply ==
    [][(pc = "respond" /\ response'.fail # "none")
       => /\ pc' = "create"
          /\ response_data'.assistant_reply = ApiErrorMsg(response'.fail)
          /\ response_data'.assistant_reply # <<>>
          /\ ~Truthy(response_data'.files_to_create)
          /\ ~Truthy(response_data'.files_to_edit)
          /\ StartsWith(conversation_history', conversation_history)
          /\ fs' = fs]_vars

\* C12 happened: the call failed in a session that had a conversation, and
\* returned the error as its reply
C12_Witness ==
    /\ pc = "create"
    /\ response.fail = "ConnectionError"
    /\ response_data.assistant_reply = ApiErrorMsg("ConnectionError")
    /\ ~MoreCreates
    /\ Len(conversation_history) > 2
    /\ conversation_history[Len(conversation_history)].kind = "user"

(***************************************************************************)
(* C13.  The conversation only grows.                                      *)
(***************************************************************************)
\* C13: the conversation starts as the seed system message alone; every
\* step leaves the messages it found where they were and as they were, and
\* only adds messages after them; what a call sends to the backend is the
\* whole conversation as it stands once the user's message is appended, in
\* the order of the conversation
C13_HistoryIsAppendOnly ==
    [][/\ pc = "start" => conversation_history = <<SystemPrompt>>
       /\ StartsWith(conversation_history', conversation_history)
       /\ (pc = "respond" /\ pc' = "create")
           => /\ StartsWith(messages', conversation_history)
              /\ StartsWith(conversation_history', messages')
              /\ messages'[Len(messages')] = Msg("user", "user", NoPath, <<>>, user_input)
              /\ \A i \in (Len(messages') + 1)..Len(conversation_history') :
                     conversation_history'[i].kind # "user"]_vars

\* C13 happened: the backend was sent the seed, a file's content and the
\* user's message, and the conversation has grown past what was sent
C13_Witness ==
    /\ pc = "create"
    /\ Len(messages) >= 3
    /\ messages[1] = SystemPrompt
    /\ StartsWith(conversation_history, messages)
    /\ Len(conversation_history) > Len(messages)
    /\ \E i \in DOMAIN messages : messages[i].kind = "file"

(***************************************************************************)
(* C14.  An "/add <file_path>" line, seen on the step that reads it.       *)
(***************************************************************************)
\* C14: a line read at the prompt of the loop that begins with "/add " is
\* not sent to the backend and not appended as a user message: nothing is
\* sent, nothing is scanned or preloaded, the next step is not the call of
\* the assistant; when the file
\* can be read the conversation gains exactly one message, of role system,
\* with the file's content, and the prompt is next; when it cannot, the
\* conversation is as it was
C14_AddLineBypassesTheBackend ==
    [][ReadsAddLine
       => LET file_path == user_input'[2]
          IN  /\ pc' \notin {"scan", "respond"}
              /\ potential_paths' = potential_paths
              /\ messages' = messages
              /\ response' = response
              /\ valid_files' = valid_files
              /\ UserMessages(conversation_history') = UserMessages(conversation_history)
              /\ IF ReadError(fs, file_path) = "none"
                 THEN /\ pc' = "prompt"
                      /\ Len(conversation_history') = Len(conversation_history) + 1
                      /\ StartsWith(conversation_history', conversation_history)
                      /\ LET added == conversation_history'[Len(conversation_history')]
                         IN  /\ added.role = "system"
                             /\ added.kind = "file"
                             /\ added.text = TextOf(fs[Target(file_path)])
                 ELSE conversation_history' = conversation_history]_vars

\* the words are a line that begins with "/add "
AddLine(words) == Len(words) = 2 /\ words[1] = slash_add

\* C14 as stated, for every line the user enters: no line that begins with
\* "/add " is appended as a user message or sent to the backend
C14_AsStated ==
    /\ \A i \in DOMAIN conversation_history :
           conversation_history[i].kind = "user" => ~AddLine(conversation_history[i].words)
    /\ \A i \in DOMAIN messages :
           messages[i].kind = "user" => ~AddLine(messages[i].words)

\* C14 happened: "/add a.py" was read, the file's content is the last
\* message, and nothing was sent
C14_Witness ==
    /\ pc = "prompt"
    /\ user_input = <<slash_add, rel_a>>
    /\ console = <<Report("added", rel_a)>>
    /\ conversation_history[Len(conversation_history)].kind = "file"
    /\ conversation_history[Len(conversation_history)].role = "system"
    /\ potential_paths = <<>>
    /\ messages = <<>>


(***************************************************************************)
(* normalize_path over path strings.  A line of two words, each a path     *)
(* string of at most MaxPathLen segments out of ".", "..", the working     *)
(* directory's name and a file name, relative or absolute, is scanned.     *)
(***************************************************************************)
Segments == {<<".">>, <<"..">>, <<"w">>, <<"a.py">>}

PathStrings ==
    LET relative == UNION {[1..n -> Segments] : n \in 0..MaxPathLen}
    IN  relative \cup {<<Root>> \o p : p \in relative}

InitPath ==
    /\ pc = "scan"
    /\ \E p \in PathStrings, q \in PathStrings : user_input = <<p, q>>
    /\ response_data = NoResponse
    /\ idx = 0
    /\ confirm = <<>>
    /\ InSession(File(<<"a">>, "rw", TRUE), FALSE, FALSE)

NextPath == Scan

SpecPath == InitPath /\ [][NextPath]_vars

\* the directory entry the operating system reaches by following the first k
\* segments of a path string, as the names from the root directory down
RECURSIVE Reached(_, _)
Reached(p, k) ==
    IF k = 0 THEN (IF IsAbs(p) THEN <<>> ELSE Tail(cwd))
    ELSE LET seg == p[k + (IF IsAbs(p) THEN 1 ELSE 0)]
             dir == Reached(p, k - 1)
         IN  IF seg = <<".">> THEN dir
             ELSE IF seg = <<"..">>
                  THEN (IF dir = <<>> THEN dir ELSE SubSeq(dir, 1, Len(dir) - 1))
                  ELSE Append(dir, seg)

\* the file a path string denotes
Denotes(p) == Reached(p, Len(p) - (IF IsAbs(p) THEN 1 ELSE 0))

\* C15: normalize_path is idempotent, its value denotes the file its argument
\* denotes, and two path strings that denote the same file (relative or
\* absolute, with "." or ".." segments) have the same value; the scanner's
\* potential_paths are such values
C15_NormalizePathIsCanonical ==
    [][pc = "scan" /\ pc' = "respond" =>
          /\ \A i \in DOMAIN user_input, j \in DOMAIN user_input :
                 LET p == user_input[i]
                     q == user_input[j]
                 IN  /\ normalize_path(normalize_path(p)) = normalize_path(p)
                     /\ Denotes(normalize_path(p)) = Denotes(p)
                     /\ Denotes(p) = Denotes(q) => normalize_path(p) = normalize_path(q)
                     /\ recognized(p) => normalize_path(p) \in Range(potential_paths')
          /\ \A k \in DOMAIN potential_paths' :
                 normalize_path(potential_paths'[k]) = potential_paths'[k]]_vars

\* a relative path string with ".." and a different, absolute one were scanned
\* to the same path
C15_Witness ==
    /\ pc = "respond"
    /\ Len(user_input) = 2
    /\ user_input[1] # user_input[2]
    /\ ~IsAbs(user_input[1])
    /\ <<"..">> \in Range(user_input[1])
    /\ IsAbs(user_input[2])
    /\ Len(potential_paths) = 2
    /\ potential_paths[1] = potential_paths[2]

(***************************************************************************)
(* C16.  The path that frames a "Content of file" message.                 *)
(***************************************************************************)
\* C16: at every point of the session, every "Content of file" message of
\* conversation_history, whichever operation appended it, is framed with the
\* canonical path of its file
C16_ContentMessagesAreCanonical ==
    \A i \in DOMAIN conversation_history :
        conversation_history[i].kind = "file"
            => conversation_history[i].path = normalize_path(conversation_history[i].path)

(***************************************************************************)
(* C17.  The conversation after an applied edit.                           *)
(***************************************************************************)
\* the place of the most recent "Content of file" message for the file
MostRecent(hist, path) ==
    CHOOSE i \in ContentMessages(hist, path) :
        \A j \in ContentMessages(hist, path) : j <= i

\* C17: whenever apply_diff_edit reports an edit as applied, the conversation
\* holds a "Content of file" message for the canonical path of the file, and
\* the most recent one is framed with that path and carries exactly the
\* content the file now has
C17_AppliedEditIsInContext ==
    [][(pc = "apply" /\ Reported(console', "applied") /\ pc' # "crashed") =>
          LET path == normalize_path(Join(project_dir, PendingEdit.path))
              hist == conversation_history'
          IN  /\ ContentMessages(hist, path) # {}
              /\ hist[MostRecent(hist, path)].path = path
              /\ hist[MostRecent(hist, path)].text = fs'[path].data]_vars

\* an edit was applied to a file the conversation already held: the older
\* message carries the old content, the most recent one the file's new content
C17_Witness ==
    /\ pc = "prompt"
    /\ Reported(console, "applied")
    /\ conversation_history[Len(conversation_history)].kind = "applied"
    /\ LET path == normalize_path(conversation_history[Len(conversation_history)].path)
           last == MostRecent(conversation_history, path)
       IN  /\ Cardinality(ContentMessages(conversation_history, path)) >= 2
           /\ conversation_history[last].text = fs[path].data
           /\ \E i \in ContentMessages(conversation_history, path) :
                  conversation_history[i].text # fs[path].data

(***************************************************************************)
(* C18.  A response without assistant_reply.                               *)
(***************************************************************************)
\* the text decodes and what it decodes to has no assistant_reply
LacksReply(text) == ~JsonError(text) /\ "assistant_reply" \notin Keys(text)

\* the response returned has the empty reply, the creations of the text and
\* the edits of the text whose file can be read
AcceptedWithEmptyReply(text) ==
    /\ pc' = "create"
    /\ ~Reported(console', "api_error")
    /\ ~Reported(console', "json_error")
    /\ response_data'.assistant_reply = <<>>
    /\ response_data'.files_to_create =
           (IF "files_to_create" \in Keys(text)
            THEN Some(Value(text, "files_to_create").list) ELSE None)
    /\ response_data'.files_to_edit =
           (IF "files_to_edit" \in Keys(text)
            THEN Some(ReadableEdits(Value(text, "files_to_edit").list, fs)) ELSE None)
    /\ conversation_history'[Len(conversation_history')] =
           Msg("assistant", "reply", NoPath, <<>>, <<>>)

\* C18 as stated: every decoded response that lacks assistant_reply is
\* accepted with the empty reply, its files_to_create and its filtered
\* files_to_edit
C18_AsStated ==
    [][(pc = "respond" /\ RequestSent /\ response'.fail = "none"
            /\ LacksReply(full_content'))
       => AcceptedWithEmptyReply(full_content')]_vars

\* C18: a decoded response that is an object, lacks assistant_reply and has
\* no field AssistantResponse rejects is accepted: the response returned has
\* the empty reply, the object's files_to_create and its files_to_edit
\* without the edits whose file cannot be read
C18_MissingReplyIsEmpty ==
    [][(pc = "respond" /\ RequestSent /\ response'.fail = "none"
            /\ LacksReply(full_content') /\ ~Undecodable(full_content'))
       => AcceptedWithEmptyReply(full_content')]_vars

\* C18 happened: a response without reply, with a creation and two proposed
\* edits of which one was kept, was returned with the empty reply
C18_Witness ==
    /\ pc = "create"
    /\ LacksReply(full_content)
    /\ IsObjectText(full_content)
    /\ response_data.assistant_reply = <<>>
    /\ "files_to_create" \in Keys(full_content)
    /\ "files_to_edit" \in Keys(full_content)
    /\ response_data.files_to_create = Some(Value(full_content, "files_to_create").list)
    /\ Len(response_data.files_to_create.val) = 1
    /\ Len(Value(full_content, "files_to_edit").list) = 2
    /\ Len(response_data.files_to_edit.val) = 1
    /\ conversation_history[Len(conversation_history)].kind = "reply"

(***************************************************************************)
(* C19.  The stream and the decode, seen on the step Respond takes:        *)
(* response' holds the lines the backend sent, full_content' the buffer.   *)
(***************************************************************************)
\* the content fragments of the first n lines, in arrival order
RECURSIVE Fragments(_, _)
Fragments(lines, n) ==
    IF n = 0 THEN <<>>
    ELSE Fragments(lines, n - 1)
             \o (IF lines[n].kind = "content" THEN lines[n].fragment ELSE <<>>)

\* the buffer is the whole stream's, and it was decoded: what the call
\* answered is what the decode of that buffer gives
DecodedWholeStream ==
    /\ full_content' = Fragments(response'.lines, Len(response'.lines))
    /\ JsonError(full_content') <=> Reported(console', "json_error")
    /\ JsonError(full_content') <=> response_data'.assistant_reply = JsonErrorMsg
    /\ ~Undecodable(full_content') =>
           conversation_history'[Len(conversation_history')].kind = "reply"

\* C19: whenever the backend's stream opens, the buffer that is decoded is the
\* concatenation, in arrival order, of the content fragments of all the
\* chunks that carry one, whatever other lines the stream holds, and the
\* decode of that buffer decides the response
C19_AsStated ==
    [][(pc = "respond" /\ RequestSent /\ response'.fail = "none")
       => DecodedWholeStream]_vars

\* C19 for the streams whose lines are empty, no JSON, or objects: lines that
\* are no JSON are passed over and the whole buffer is decoded
C19_UndecodableLinesAreSkipped ==
    [][(pc = "respond" /\ RequestSent /\ response'.fail = "none"
            /\ \A k \in DOMAIN response'.lines : response'.lines[k].kind # "illtyped")
       => DecodedWholeStream]_vars

(***************************************************************************)
(* C20.  The order of a turn and of the turns.                             *)
(***************************************************************************)
\* the place of the user message the step appends
NewUserMessage ==
    CHOOSE u \in UserMessages(conversation_history') : u > Len(conversation_history)

\* what a call of stream_openai_response that sent its request appended: the
\* files it preloaded, then the user's line, which is the last entry of what
\* the backend is sent, then the files read to validate edits and, last, the
\* reply
OrderedTurn ==
    LET old == Len(conversation_history)
        hist == conversation_history'
        u == NewUserMessage
    IN  /\ SubSeq(hist, 1, old) = conversation_history
        /\ UserMessages(hist) = UserMessages(conversation_history) \cup {u}
        /\ hist[u] = Msg("user", "user", NoPath, <<>>, user_input)
        /\ \A i \in (old + 1)..(u - 1) :
               hist[i].kind = "file" /\ hist[i].path \in DOMAIN valid_files'
        /\ \A path \in DOMAIN valid_files' : has_marker(SubSeq(hist, 1, u - 1), path)
        /\ messages' = SubSeq(hist, 1, u)
        /\ messages'[Len(messages')] = hist[u]
        /\ \A i \in (u + 1)..Len(hist) :
               /\ hist[i].kind \in {"file", "reply"}
               /\ hist[i].kind = "file" => hist[i].path \notin DOMAIN valid_files'
               /\ hist[i].kind = "reply" => i = Len(hist)
        /\ (~Reported(console', "api_error") /\ ~Reported(console', "json_error"))
               => /\ Len(hist) > u
                  /\ hist[Len(hist)] =
                         Msg("assistant", "reply", NoPath, response_data'.assistant_reply, <<>>)

\* the step ends the processing of a line with nothing of it left to do
TurnFinished ==
    \/ pc = "start" /\ user_input' = <<>>
    \/ pc = "prompt" /\ pc' = "prompt"
    \/ pc = "create" /\ ~MoreCreates /\ ~Truthy(response_data.files_to_edit)
    \/ pc = "confirm" /\ confirm' # <<"y">>
    \/ pc = "apply" /\ idx = Len(response_data.files_to_edit.val)

\* C20: in every turn the file messages of the preload are appended before
\* the turn's user message, the backend is sent the history with the user
\* message as its last entry, the reply is appended after the user message;
\* a line is read only at the prompt, and the prompt is reached only when the
\* creations and the edits of the line before are done
C20_TurnsAreOrdered ==
    [][/\ (pc = "respond" /\ RequestSent) => OrderedTurn
       /\ (pc # "scan" /\ pc' = "scan") => pc \in {"start", "prompt"}
       /\ (pc' = "respond") => (pc = "scan" /\ potential_paths' = guess_files_in_message(user_input))
       /\ (pc' = "prompt") => TurnFinished
       /\ (pc' = "create" /\ pc # "create") => pc = "respond"
       /\ (pc' = "confirm") => (pc = "create" /\ ~MoreCreates) \/ pc = "confirm"
       /\ (pc' = "apply") => pc \in {"confirm", "apply"}]_vars

\* C20 happened: the second turn of a session preloaded a file, sent the
\* history that ends with its user message and got a reply, after the first
\* turn's reply
C20_Witness ==
    /\ pc = "create"
    /\ \E u1, r1, f, u2 \in DOMAIN conversation_history :
           /\ u1 < r1 /\ r1 < f /\ f < u2 /\ u2 < Len(conversation_history)
           /\ conversation_history[u1].kind = "user"
           /\ conversation_history[r1].kind = "reply"
           /\ conversation_history[f].kind = "file"
           /\ conversation_history[f].path \in DOMAIN valid_files
           /\ conversation_history[u2].kind = "user"
           /\ messages = SubSeq(conversation_history, 1, u2)
    /\ conversation_history[Len(conversation_history)].kind = "reply"

(***************************************************************************)
(* C21.  Where files are written.                                          *)
(***************************************************************************)
\* the canonical path lies inside the directory
Inside(dir, path) ==
    LET root == normalize_path(dir)
    IN  /\ Len(path) > Len(root)
        /\ SubSeq(path, 1, Len(root)) = root

\* C21: every file that a file creation or an applied edit writes lies inside
\* the current project directory, whatever path the backend proposed
C21_WritesStayInProject ==
    [][(pc = "create" \/ pc = "apply") =>
          (\A path \in AllFiles :
               fs'[path] # fs[path] => Inside(project_dir, path))]_vars

(***************************************************************************)
(* C22.  The accepted edits of a turn, seen on each step ApplyEdit takes.  *)
(***************************************************************************)
\* what one pass of the loop does with the pending edit and the files as the
\* passes before left them, and where the loop goes next
EditStep ==
    LET edits == response_data.files_to_edit.val
        S == PendingEdit.original_snippet
        R == PendingEdit.new_snippet
        path == Target(PendingEdit.path)
        T == TextOf(PendingFile)
    IN  /\ \A other \in AllFiles \ {path} : fs'[other] = fs[other]
        /\ SubSeq(conversation_history', 1, Len(conversation_history)) = conversation_history
        /\ ~PendingFile.exists
               => /\ fs' = fs
                  /\ conversation_history' = conversation_history
                  /\ Reported(console', "file_not_found")
        /\ (PendingFile.exists /\ Occurrences(S, T) = {})
               => /\ fs' = fs
                  /\ conversation_history' = conversation_history
                  /\ Reported(console', "snippet_not_found")
        /\ (PendingFile.exists /\ Occurrences(S, T) # {})
               => /\ fs'[path].data = ReplacedAt(T, Leftmost(S, T), S, R)
                  /\ Reported(console', "applied")
        /\ idx < Len(edits)
               => /\ pc' = "apply"
                  /\ idx' = idx + 1
                  /\ response_data' = response_data
        /\ idx = Len(edits) => pc' = "prompt"

\* C22: the accepted edits are applied one at a time in the order listed,
\* each to the file as the edits before it left it; an edit whose snippet or
\* file is not found changes nothing, the loop goes on with the next edit, and
\* no edit changes what an earlier one wrote to another file
C22_EditsAppliedInOrder ==
    [][(pc = "apply" /\ pc' # "crashed") => EditStep]_vars

\* C22 happened: the first of two accepted edits did not find its snippet and
\* changed nothing, and the second one, whose snippet the file holds, is next
C22_Witness ==
    /\ pc = "apply"
    /\ idx = 2
    /\ Len(response_data.files_to_edit.val) = 2
    /\ Reported(console, "snippet_not_found")
    /\ Readable(PendingFile) /\ Writable(PendingFile)
    /\ Occurrences(PendingEdit.original_snippet, TextOf(PendingFile)) # {}

(***************************************************************************)
(* The creations of a turn: a response with up to MaxCreates entries for   *)
(* a.py of the project and a.py of the working directory, with and without *)
(* an edit, from the call of stream_openai_response to the next prompt.    *)
(***************************************************************************)
CreateEntries == {FileToCreate(path, content) : path \in {rel_a, abs_a},
                                                content \in {<<"a">>, <<"LF">>}}

CreateBackends ==
    {Backend("none", <<Line("content", Document(<<ReplyMember(<<"a">>)>>,
                                                 <<CreateMember(l)>>, edits))>>) :
        l \in Lists(CreateEntries, MaxCreates),
        edits \in {<<>>, <<EditMember(<<EditOf(rel_a)>>)>>}}

InitCreate ==
    /\ pc = "respond"
    /\ user_input = <<plain>>
    /\ response_data = NoResponse
    /\ idx = 0
    /\ confirm = <<>>
    /\ \E a_file \in SessionFiles, added \in BOOLEAN : InSession(a_file, added, FALSE)

NextCreate ==
    \/ pc = "respond" /\ \E b \in CreateBackends : Respond(b)
    \/ CreateFile
    \/ ShowEdits
    \/ \E a \in Answers : Confirm(a)
    \/ ApplyEdit

SpecCreate == InitCreate /\ [][NextCreate]_vars

(***************************************************************************)
(* C23.  The creations come before the confirmation prompt.                *)
(***************************************************************************)
\* the messages create_file appends for the first n entries, in their order
RECURSIVE CreationNotes(_, _)
CreationNotes(entries, n) ==
    IF n = 0 THEN <<>>
    ELSE CreationNotes(entries, n - 1)
             \o <<Msg("assistant", "created", CreatedPath(entries[n]), <<>>, <<>>),
                  FileMsg(normalize_path(CreatedPath(entries[n])), entries[n].content)>>

\* the last n messages of the conversation
LastMessages(hist, n) == SubSeq(hist, Len(hist) - n + 1, Len(hist))

\* every entry was written, in the order listed: the conversation ends with
\* their notes in that order, and each file holds the content of the last
\* entry for it
AllCreated ==
    LET entries == response_data.files_to_create.val
        n == Len(entries)
    IN  /\ idx = n + 1
        /\ Len(conversation_history) >= 2 * n
        /\ LastMessages(conversation_history, 2 * n) = CreationNotes(entries, n)
        /\ \A k \in 1..n :
               (\A j \in (k + 1)..n :
                    Target(CreatedPath(entries[j])) # Target(CreatedPath(entries[k])))
                   => fs[Target(CreatedPath(entries[k]))] = File(entries[k].content, "rw", TRUE)

\* C23: in every turn the files_to_create entries are written one after the
\* other in the order listed, with no question asked, and the confirmation
\* prompt for the edits is shown only when all of them are written; an answer
\* that rejects the edits changes no file
C23_CreatesBeforeConfirmation ==
    [][/\ (pc = "create" /\ MoreCreates /\ pc' # "crashed")
           => /\ pc' = "create"
              /\ idx' = idx + 1
              /\ confirm' = confirm
              /\ fs'[Target(CreatedPath(PendingCreate))] =
                     File(PendingCreate.content, "rw", TRUE)
       /\ (pc = "respond" /\ pc' = "create" /\ Truthy(response_data'.files_to_create))
           => idx' = 1
       /\ (pc # "confirm" /\ pc' = "confirm")
           => /\ pc = "create"
              /\ Truthy(response_data.files_to_create) => AllCreated
       /\ (pc = "confirm" /\ pc' = "prompt")
           => /\ fs' = fs
              /\ conversation_history' = conversation_history]_vars

\* C23 happened: two entries for one file were written, the second over the
\* first, the edits were then shown and rejected, and the file holds the
\* content of the second entry
C23_Witness ==
    /\ pc = "prompt"
    /\ console = <<Report("skipped", NoPath)>>
    /\ Len(conversation_history) >= 4
    /\ LET hist == LastMessages(conversation_history, 4)
       IN  /\ hist[1].kind = "created" /\ hist[2].kind = "file"
           /\ hist[3].kind = "created" /\ hist[4].kind = "file"
           /\ hist[2].path = hist[4].path
           /\ hist[2].text # hist[4].text
           /\ fs[hist[4].path].data = hist[4].text

(***************************************************************************)
(* C24.  The context of the edits a response returns, seen on the step     *)
(* Respond takes.                                                          *)
(***************************************************************************)
\* the places of the system messages framed "Content of file '<path>'" for
\* exactly this path
ContentEntries(hist, path) ==
    {i \in DOMAIN hist : hist[i].role = "system" /\ marker_in(path, hist[i])}

\* C24: when stream_openai_response returns, for every edit of the returned
\* files_to_edit the conversation holds a "Content of file" message framed
\* with the edit's path, which is canonical
C24_ReturnedEditsAreInContext ==
    [][(pc = "respond" /\ pc' = "create")
       => LET returned == response_data'.files_to_edit.val
          IN  \A k \in DOMAIN returned :
                  /\ returned[k].path = normalize_path(returned[k].path)
                  /\ ContentEntries(conversation_history', returned[k].path) # {}]_vars

\* C24 happened: an edit was returned for a file the user's line did not
\* mention; its content was appended, after the user's message, when the edit
\* was validated
C24_Witness ==
    /\ pc = "create"
    /\ Len(response_data.files_to_edit.val) >= 1
    /\ \E k \in DOMAIN response_data.files_to_edit.val :
           LET path == response_data.files_to_edit.val[k].path
           IN  /\ path \notin DOMAIN valid_files
               /\ \E i \in ContentEntries(conversation_history, path) :
                      \E u \in UserMessages(conversation_history) :
                          /\ u = Len(messages)
                          /\ u < i

=============================================================================
